---------------------------- MODULE Spec2Model ----------------------------
(***************************************************************************)
(* EcommerceScraper: the extraction-and-pagination core of the Amazon      *)
(* scraper (src/scraper/amazon_scraper.py, src/scraper/base_scraper.py).   *)
(*                                                                         *)
(* A text is a sequence of one-character strings.  An optional DOM element *)
(* is a sequence of length 0 (no such element) or 1 (the element's text).  *)
(***************************************************************************)
EXTENDS Integers, Sequences, FiniteSets, TLC

VARIABLES
    site,           \* which pages the storefront serves in this run
    pc,             \* position inside scrape_product
    url,            \* the url argument of scrape_product
    maxPagesCfg,    \* settings.MAX_PAGES_TO_SCRAPE as configured for the run
    browser,        \* what the driver currently shows
    product,        \* product_data of extract_product_details
    asin,           \* asin local of collect_customer_reviews
    attempt,        \* attempt index of navigate_with_retry
    page,           \* loop variable of collect_customer_reviews
    reviews,        \* reviews list of collect_customer_reviews
    visited,        \* per extracted page: what _extract_reviews_from_page returned
    clicks,         \* number of next_button.click() calls issued
    result,         \* the record scrape_product returned
    escaped,        \* an exception left scrape_product
    call,           \* arguments of a single extraction call (function specifications)
    ret,            \* what that call returned
    nav,            \* the last page transition of the run and how it was made
    proc            \* the command-line process around the run (main.py)

vars == <<site, pc, url, maxPagesCfg, browser, product, asin, attempt, page, reviews,
          visited, clicks, result, escaped, call, ret, nav, proc>>

runVars == <<site, pc, url, maxPagesCfg, browser, product, asin, attempt, page, reviews,
             visited, clicks, result, escaped, nav>>

(***************************************************************************)
(* Texts                                                                   *)
(***************************************************************************)
Digits == {"0", "1", "2", "3", "4", "5", "6", "7", "8", "9"}

Whitespace == {" "}

DigitVal(c) ==
    CASE c = "0" -> 0 [] c = "1" -> 1 [] c = "2" -> 2 [] c = "3" -> 3
      [] c = "4" -> 4 [] c = "5" -> 5 [] c = "6" -> 6 [] c = "7" -> 7
      [] c = "8" -> 8 [] c = "9" -> 9

Rep(c, n) == [i \in 1..n |-> c]

Contains(text, c) == \E i \in DOMAIN text : text[i] = c

\* str.strip()
RECURSIVE LStrip(_)
LStrip(text) ==
    IF text # <<>> /\ Head(text) \in Whitespace THEN LStrip(Tail(text)) ELSE text

RECURSIVE RStrip(_)
RStrip(text) ==
    IF text # <<>> /\ text[Len(text)] \in Whitespace
    THEN RStrip(SubSeq(text, 1, Len(text) - 1))
    ELSE text

Strip(text) == RStrip(LStrip(text))

\* re.search(r'(\d+)', text): position of the first digit, 0 when there is none
FirstDigitPos(text) ==
    IF \E i \in DOMAIN text : text[i] \in Digits
    THEN CHOOSE i \in DOMAIN text :
            /\ text[i] \in Digits
            /\ \A j \in 1..(i - 1) : text[j] \notin Digits
    ELSE 0

\* the greedy run of digits starting at position i
RECURSIVE DigitRun(_, _)
DigitRun(text, i) ==
    IF i <= Len(text) /\ text[i] \in Digits
    THEN <<text[i]>> \o DigitRun(text, i + 1)
    ELSE <<>>

\* int(digits)
RECURSIVE IntOf(_)
IntOf(digits) ==
    IF digits = <<>> THEN 0
    ELSE 10 * IntOf(SubSeq(digits, 1, Len(digits) - 1)) + DigitVal(digits[Len(digits)])

\* int(m.group(1)) if m else 0, for m = re.search(r'(\d+)', text)
FirstIntOrZero(text) ==
    IF FirstDigitPos(text) = 0 THEN 0 ELSE IntOf(DigitRun(text, FirstDigitPos(text)))

\* an optional element
NoElement == <<>>

Element(text) == <<text>>


(***************************************************************************)
(* Review extraction: the _extract_reviews_from_page in effect (the second *)
(* definition of the class body, which replaces the first).                *)
(*                                                                         *)
(* A review node is a record                                               *)
(*   [id, name, rating, title, body, date, votes : optional elements,      *)
(*    verified, vine : BOOLEAN, raises : BOOLEAN]                          *)
(* where raises says that a driver call on the node fails with an          *)
(* exception other than NoSuchElementException (a stale node).             *)
(***************************************************************************)
MinContentLen == 10

Anonymous == <<"A", "n", "o", "n", "y", "m", "o", "u", "s">>

\* BaseScraper.safe_get_text: element.text.strip(), "" for no element
safe_get_text(element) ==
    IF element = NoElement THEN <<>> ELSE Strip(element[1])

\* driver-wide lookup of ".a-profile-name": the first such element of the document
RECURSIVE FirstProfileName(_)
FirstProfileName(nodes) ==
    IF nodes = <<>> THEN NoElement
    ELSE IF Head(nodes).name # NoElement THEN Head(nodes).name
    ELSE FirstProfileName(Tail(nodes))

\* element.find_element raises NoSuchElementException for a missing child
FindElementRaises(node) ==
    \/ node.rating = NoElement
    \/ node.title = NoElement
    \/ node.body = NoElement
    \/ node.date = NoElement

\* an exception reaches the per-review handler
ReviewRaises(node) == node.raises \/ FindElementRaises(node)

\* the review_data dictionary built for one node
ReviewData(node, nodes) ==
    [review_id      |-> IF node.id = NoElement THEN <<>> ELSE node.id[1],
     reviewer_name  |-> IF FirstProfileName(nodes) # NoElement
                        THEN safe_get_text(FirstProfileName(nodes))
                        ELSE Anonymous,
     rating         |-> IF safe_get_text(node.rating) # <<>>
                        THEN FirstIntOrZero(safe_get_text(node.rating))
                        ELSE 0,
     title          |-> safe_get_text(node.title),
     review_text    |-> safe_get_text(node.body),
     date           |-> safe_get_text(node.date),
     verified_purchase |-> node.verified,
     helpful_votes  |-> IF node.votes # NoElement
                        THEN FirstIntOrZero(safe_get_text(node.votes))
                        ELSE 0,
     vine_customer  |-> node.vine]

\* "Only add review if it has meaningful content"
HasMeaningfulContent(review_data) ==
    /\ review_data.review_text # <<>>
    /\ Len(Strip(review_data.review_text)) >= MinContentLen

\* one iteration of the loop over review_elements: the records it appends
ReviewOf(node, nodes) ==
    IF ReviewRaises(node) THEN <<>>
    ELSE IF HasMeaningfulContent(ReviewData(node, nodes))
         THEN <<ReviewData(node, nodes)>>
         ELSE <<>>

RECURSIVE ReviewsOfNodes(_, _)
ReviewsOfNodes(rest, nodes) ==
    IF rest = <<>> THEN <<>>
    ELSE ReviewOf(Head(rest), nodes) \o ReviewsOfNodes(Tail(rest), nodes)

\* fault: "none", "wait" (wait_for_reviews_to_load returned False) or
\* "find" (driver.find_elements raised)
ExtractReviewsFromPage(nodes, fault) ==
    IF fault # "none" \/ nodes = <<>> THEN <<>> ELSE ReviewsOfNodes(nodes, nodes)

PageFaults == {"none", "wait", "find"}

(***************************************************************************)
(* More text operations used by the product-field extractors               *)
(***************************************************************************)
\* sub in text
HasSub(text, sub) ==
    \E i \in 0..(Len(text) - Len(sub)) : SubSeq(text, i + 1, i + Len(sub)) = sub

\* text.startswith(prefix)
StartsWith(text, prefix) ==
    Len(text) >= Len(prefix) /\ SubSeq(text, 1, Len(prefix)) = prefix

\* text.replace(sub, "")
RECURSIVE Remove(_, _)
Remove(text, sub) ==
    IF text = <<>> THEN <<>>
    ELSE IF StartsWith(text, sub) THEN Remove(SubSeq(text, Len(sub) + 1, Len(text)), sub)
    ELSE <<Head(text)>> \o Remove(Tail(text), sub)

LowerChar(c) ==
    CASE c = "A" -> "a" [] c = "B" -> "b" [] c = "C" -> "c" [] c = "D" -> "d"
      [] c = "E" -> "e" [] c = "I" -> "i" [] c = "S" -> "s" [] c = "V" -> "v"
      [] c = "M" -> "m" [] c = "N" -> "n" [] c = "O" -> "o" [] c = "Z" -> "z"
      [] OTHER -> c

\* text.lower()
Lower(text) == [i \in DOMAIN text |-> LowerChar(text[i])]

\* the currency signs $, Rs (U+20B9), pound (U+00A3), euro (U+20AC)
DollarSign == "$"

RupeeSign == "rupee"

PoundSign == "pound"

EuroSign == "euro"

(***************************************************************************)
(* ASIN extraction                                                         *)
(* A Python Optional[str] is an optional element: <<>> is None.            *)
(***************************************************************************)
AsinLen == 10

UpperAlnum == Digits \cup {"A", "B", "C", "D", "E"}

LowerAlpha == {"a", "b", "c", "d", "e", "h", "m", "o"}

\* str.isalnum() on one character
IsAlnumChar(c) == c \in UpperAlnum \cup LowerAlpha

\* the group of r'([A-Z0-9]{10})' matched at the start of text, None otherwise
MatchAsinPrefix(text) ==
    IF Len(text) >= AsinLen /\ \A i \in 1..AsinLen : text[i] \in UpperAlnum
    THEN Element(SubSeq(text, 1, AsinLen))
    ELSE NoElement

\* r'"ASIN"\s*:\s*"([A-Z0-9]{10})"' on one script: script is [form, value], the
\* quoted value assigned in the given syntactic form
ScriptAsinMatch(script) ==
    IF /\ script.form = "\"ASIN\":"
       /\ Len(script.value) = AsinLen
       /\ \A i \in 1..AsinLen : script.value[i] \in UpperAlnum
    THEN Element(script.value)
    ELSE NoElement

RECURSIVE FirstScriptAsin(_)
FirstScriptAsin(scripts) ==
    IF scripts = <<>> THEN NoElement
    ELSE IF ScriptAsinMatch(Head(scripts)) # NoElement THEN ScriptAsinMatch(Head(scripts))
    ELSE FirstScriptAsin(Tail(scripts))

\* AmazonScraper.extract_asin_from_page on the page source
\*   src = [readable : BOOLEAN, meta : optional (optional content),
\*          dataAsin : optional text, scripts : sequence of scripts]
extract_asin_from_page(src) ==
    IF ~src.readable THEN NoElement
    ELSE IF src.meta # NoElement THEN src.meta[1]
    ELSE IF src.dataAsin # NoElement THEN src.dataAsin
    ELSE FirstScriptAsin(src.scripts)

\* AmazonScraper.extract_asin: u = [host, dp, gp, query], each of dp, gp, query the
\* optional text that follows "/dp/", "/gp/product/", "asin=" in the url
extract_asin(u, src) ==
    IF u.dp # NoElement /\ MatchAsinPrefix(u.dp[1]) # NoElement
    THEN MatchAsinPrefix(u.dp[1])
    ELSE IF u.gp # NoElement /\ MatchAsinPrefix(u.gp[1]) # NoElement
    THEN MatchAsinPrefix(u.gp[1])
    ELSE IF u.query # NoElement /\ MatchAsinPrefix(u.query[1]) # NoElement
    THEN MatchAsinPrefix(u.query[1])
    ELSE extract_asin_from_page(src)

\* x or ""
OrEmpty(opt) == IF opt = NoElement THEN <<>> ELSE opt[1]

(***************************************************************************)
(* Product fields.  A chain is the sequence, in selector order, of what    *)
(* each selector of a field finds on the page: an optional element for     *)
(* safe_find_element, a sequence of elements for safe_find_elements.       *)
(***************************************************************************)
\* product_data as extract_product_details creates it
InitialProductData(resolved_url) ==
    [url          |-> resolved_url,
     name         |-> <<>>,
     price        |-> <<>>,
     currency     |-> "",
     rating       |-> [whole |-> 0, frac |-> <<>>],
     review_count |-> 0,
     features     |-> <<>>,
     seller_name  |-> <<>>,
     asin         |-> <<>>,
     images       |-> <<>>]

\* the name_selectors loop: the first element found ends it
RECURSIVE ExtractName(_, _)
ExtractName(chain, pd) ==
    IF chain = <<>> THEN pd
    ELSE IF Head(chain) # NoElement
         THEN [pd EXCEPT !.name = safe_get_text(Head(chain))]
         ELSE ExtractName(Tail(chain), pd)

\* the if/elif chain on the currency signs; the else branch writes no currency
CurrencyOf(price_text, current) ==
    IF Contains(price_text, DollarSign) THEN "USD"
    ELSE IF Contains(price_text, RupeeSign) THEN "INR"
    ELSE IF Contains(price_text, PoundSign) THEN "GBP"
    ELSE IF Contains(price_text, EuroSign) THEN "EUR"
    ELSE current

\* re.sub(r'[^\d.]', '', price_text)
DigitsAndDots(price_text) ==
    SelectSeq(price_text, LAMBDA c : c \in Digits \cup {"."})

\* AmazonScraper._extract_price_info
RECURSIVE _extract_price_info(_, _)
_extract_price_info(chain, pd) ==
    IF chain = <<>> THEN pd
    ELSE IF Head(chain) # NoElement /\ safe_get_text(Head(chain)) # <<>>
         THEN [pd EXCEPT !.currency = CurrencyOf(safe_get_text(Head(chain)), pd.currency),
                         !.price = DigitsAndDots(safe_get_text(Head(chain)))]
         ELSE _extract_price_info(Tail(chain), pd)

\* float(m.group(1)) for m = re.search(r'(\d+\.?\d*)', text): the whole part and
\* the fraction digits without trailing zeros; None when there is no digit
RECURSIVE DropTrailingZeros(_)
DropTrailingZeros(digits) ==
    IF digits # <<>> /\ digits[Len(digits)] = "0"
    THEN DropTrailingZeros(SubSeq(digits, 1, Len(digits) - 1))
    ELSE digits

FirstFloat(text) ==
    IF FirstDigitPos(text) = 0 THEN NoElement
    ELSE LET i == FirstDigitPos(text)
             w == DigitRun(text, i)
             j == i + Len(w)
         IN  Element([whole |-> IntOf(w),
                      frac  |-> IF j <= Len(text) /\ text[j] = "."
                                THEN DropTrailingZeros(DigitRun(text, j + 1))
                                ELSE <<>>])

\* the rating_selectors loop of _extract_rating_info; textContent is the raw text
RECURSIVE ExtractRating(_, _)
ExtractRating(chain, pd) ==
    IF chain = <<>> THEN pd
    ELSE LET rating_text == IF Head(chain) = NoElement THEN <<>>
                            ELSE IF Head(chain)[1] # <<>> THEN Head(chain)[1]
                            ELSE safe_get_text(Head(chain))
         IN  IF rating_text # <<>> /\ FirstFloat(rating_text) # NoElement
             THEN [pd EXCEPT !.rating = FirstFloat(rating_text)[1]]
             ELSE ExtractRating(Tail(chain), pd)

\* the group of re.search(r'([\d,]+)', text), "" when there is no match
RECURSIVE CountRun(_, _)
CountRun(text, i) ==
    IF i <= Len(text) /\ text[i] \in Digits \cup {","}
    THEN <<text[i]>> \o CountRun(text, i + 1)
    ELSE <<>>

FirstCountText(text) ==
    IF \E i \in DOMAIN text : text[i] \in Digits \cup {","}
    THEN CountRun(text, CHOOSE i \in DOMAIN text :
                            /\ text[i] \in Digits \cup {","}
                            /\ \A j \in 1..(i - 1) : text[j] \notin Digits \cup {","})
    ELSE <<>>

\* the review_count_selectors loop: int() of only commas raises ValueError, which
\* is passed over and the loop goes on
RECURSIVE ExtractReviewCount(_, _)
ExtractReviewCount(chain, pd) ==
    IF chain = <<>> THEN pd
    ELSE LET digits == SelectSeq(FirstCountText(safe_get_text(Head(chain))),
                                 LAMBDA c : c # ",")
         IN  IF Head(chain) # NoElement /\ digits # <<>>
             THEN [pd EXCEPT !.review_count = IntOf(digits)]
             ELSE ExtractReviewCount(Tail(chain), pd)

MaxFeatures == 10

MinFeatureLen == 10

MakeSure == <<"M", "a", "k", "e", " ", "s", "u", "r", "e">>

Bullets == {"bullet", "-", "*"}

\* re.sub(r'^[bullet\-\*]\s*', '', text).strip()
CleanFeature(text) ==
    IF text # <<>> /\ Head(text) \in Bullets THEN Strip(Tail(text)) ELSE Strip(text)

KeepFeature(feature_text) ==
    /\ feature_text # <<>>
    /\ Len(feature_text) > MinFeatureLen
    /\ ~StartsWith(feature_text, MakeSure)

\* elements is the sequence of the texts of the elements found
RECURSIVE FeaturesOf(_)
FeaturesOf(elements) ==
    IF elements = <<>> THEN <<>>
    ELSE (IF KeepFeature(safe_get_text(Element(Head(elements))))
          THEN <<CleanFeature(safe_get_text(Element(Head(elements))))>>
          ELSE <<>>) \o FeaturesOf(Tail(elements))

FirstN(seq, n) == SubSeq(seq, 1, IF Len(seq) < n THEN Len(seq) ELSE n)

\* AmazonScraper._extract_features: the first selector with elements ends the loop
RECURSIVE _extract_features(_, _)
_extract_features(chain, pd) ==
    IF chain = <<>> THEN pd
    ELSE IF Head(chain) # <<>>
         THEN [pd EXCEPT !.features = pd.features \o FeaturesOf(FirstN(Head(chain), MaxFeatures))]
         ELSE _extract_features(Tail(chain), pd)

Visit == <<"V", "i", "s", "i", "t">>

BrandColon == <<"B", "r", "a", "n", "d", ":">>

AmazonSeller == <<"A", "m", "a", "z", "o", "n">>

\* the seller_selectors loop: seller_info after it, {} when nothing was accepted
RECURSIVE SellerName(_)
SellerName(chain) ==
    IF chain = <<>> THEN NoElement
    ELSE IF /\ Head(chain) # NoElement
            /\ safe_get_text(Head(chain)) # <<>>
            /\ ~StartsWith(safe_get_text(Head(chain)), Visit)
         THEN Element(Strip(Remove(safe_get_text(Head(chain)), BrandColon)))
         ELSE SellerName(Tail(chain))

\* AmazonScraper._extract_seller_info: the result goes to the key seller_info
_extract_seller_info(chain, pd) ==
    ("seller_info" :>
        [name |-> IF SellerName(chain) = NoElement \/ SellerName(chain)[1] = <<>>
                  THEN AmazonSeller
                  ELSE SellerName(chain)[1]]) @@ pd

Stock == <<"s", "t", "o", "c", "k">>

Available == <<"a", "v", "a", "i", "l", "a", "b", "l", "e">>

\* AmazonScraper._extract_availability: the key exists only when a text was accepted
RECURSIVE _extract_availability(_, _)
_extract_availability(chain, pd) ==
    IF chain = <<>> THEN pd
    ELSE IF /\ Head(chain) # NoElement
            /\ \/ HasSub(Lower(safe_get_text(Head(chain))), Stock)
               \/ HasSub(Lower(safe_get_text(Head(chain))), Available)
         THEN ("availability" :> safe_get_text(Head(chain))) @@ pd
         ELSE _extract_availability(Tail(chain), pd)

MaxImages == 5

Http == <<"h", "t", "t", "p">>

\* AmazonScraper._extract_images: an element is the text of its src attribute
RECURSIVE _extract_images(_, _)
_extract_images(chain, pd) ==
    IF chain = <<>> THEN pd
    ELSE IF Head(chain) # <<>>
         THEN [pd EXCEPT !.images = pd.images \o
                  SelectSeq(FirstN(Head(chain), MaxImages),
                            LAMBDA img_src : img_src # <<>> /\ HasSub(img_src, Http))]
         ELSE _extract_images(Tail(chain), pd)

(***************************************************************************)
(* extract_product_details on a product page.                              *)
(*   snap  = [src, name, price, rating, review_count, features, seller,    *)
(*            availability, images]: the page source and one chain a field *)
(*   fault = "none", "get" (driver.get raises) or the field whose first    *)
(*           lookup raises an exception that is not a TimeoutException     *)
(***************************************************************************)
FieldOrder ==
    <<"asin", "name", "price", "rating", "review_count", "features", "seller",
      "availability", "images">>

ProductFaults ==
    {"none", "get", "name", "price", "rating", "review_count", "features", "seller",
     "availability", "images"}

\* BaseScraper.safe_find_element / safe_find_elements: a TimeoutException becomes
\* None / []; any other exception of the lookup leaves the method
LookupRaises(field, fault) == field = fault

FieldStep(field, snap, pd) ==
    CASE field = "asin"         -> [pd EXCEPT !.asin = OrEmpty(extract_asin_from_page(snap.src))]
      [] field = "name"         -> ExtractName(snap.name, pd)
      [] field = "price"        -> _extract_price_info(snap.price, pd)
      [] field = "rating"       -> ExtractRating(snap.rating, pd)
      [] field = "review_count" -> ExtractReviewCount(snap.review_count, pd)
      [] field = "features"     -> _extract_features(snap.features, pd)
      [] field = "seller"       -> _extract_seller_info(snap.seller, pd)
      [] field = "availability" -> _extract_availability(snap.availability, pd)
      [] field = "images"       -> _extract_images(snap.images, pd)

\* the body of the try block after driver.get: an exception ends it
RECURSIVE ExtractFields(_, _, _, _)
ExtractFields(fields, snap, fault, pd) ==
    IF fields = <<>> THEN pd
    ELSE IF LookupRaises(Head(fields), fault) THEN pd
    ELSE ExtractFields(Tail(fields), snap, fault, FieldStep(Head(fields), snap, pd))

\* AmazonScraper.extract_product_details, after resolve_short_url
extract_product_details(resolved_url, snap, fault) ==
    IF fault = "get" THEN InitialProductData(resolved_url)
    ELSE ExtractFields(FieldOrder, snap, fault, InitialProductData(resolved_url))

(***************************************************************************)
(* Inputs: the pages and urls the extraction is run on                      *)
(***************************************************************************)
\* review nodes on one listing page, at most
MaxNodes == 2

\* a review body of n letters with pad blanks on each side
BodyText(n, pad) == Rep(" ", pad) \o Rep("x", n) \o Rep(" ", pad)

BodyTexts ==
    {BodyText(MinContentLen - 1, 0), BodyText(MinContentLen, 0), BodyText(MinContentLen - 1, 1)}

NameTexts == {<<"A", "l">>, <<"B", "o">>}

RatingText == <<"4", ".", "0", " ", "o", "f", " ", "5">>

TitleText == <<"O", "k">>

DateText == <<"1", " ", "M", "a", "y">>

VotesText == <<"1", "2", " ", "u", "p">>

\* a node with every sub-field element
FullNode(name, body) ==
    [id |-> Element(<<"R", "1">>), name |-> name, rating |-> Element(RatingText),
     title |-> Element(TitleText), body |-> Element(body), date |-> Element(DateText),
     votes |-> Element(VotesText), verified |-> TRUE, vine |-> FALSE, raises |-> FALSE]

NodeDefects == {"none", "rating", "title", "date", "body", "raises"}

\* a node with at most one defect: a missing sub-field element or a stale node
DefectNode(node, defect) ==
    CASE defect = "none"   -> node
      [] defect = "rating" -> [node EXCEPT !.rating = NoElement]
      [] defect = "title"  -> [node EXCEPT !.title = NoElement]
      [] defect = "date"   -> [node EXCEPT !.date = NoElement]
      [] defect = "body"   -> [node EXCEPT !.body = NoElement]
      [] defect = "raises" -> [node EXCEPT !.raises = TRUE]

Nodes ==
    {DefectNode(FullNode(name, body), defect) :
        name \in {NoElement} \cup {Element(t) : t \in NameTexts},
        body \in BodyTexts,
        defect \in NodeDefects}

NodeSeqs == UNION {[1..n -> Nodes] : n \in 0..MaxNodes}

\* rendered rating texts: "N out of 5" as the storefront writes it, and texts whose
\* first digits are no star count
RatingTexts ==
    {RatingText, <<"5">>, <<"0", " ", "o", "f", " ", "5">>, <<"1", "0", " ", "o", "f", " ", "5">>,
     <<"4", "5">>, <<"n", "/", "a">>, <<" ">>}

\* rendered helpful-vote statements
VotesTexts ==
    {VotesText, <<"O", "n", "e", " ", "u", "p">>, <<"1", ",", "2", "3", "4", " ", "u", "p">>,
     <<"0">>}

\* pages of one complete review node with each rating and vote text
RatedNodeSeqs ==
    {<<[FullNode(Element(<<"A", "l">>), BodyText(MinContentLen, 0))
            EXCEPT !.rating = Element(r), !.votes = v]>> :
        r \in RatingTexts, v \in {NoElement} \cup {Element(t) : t \in VotesTexts}}

ValidAsin1 == <<"B", "0", "1", "2", "3", "A", "B", "C", "D", "E">>

ValidAsin2 == <<"B", "0", "9", "9", "9", "A", "B", "C", "D", "E">>

LowerAsin == <<"b", "0", "1", "2", "3", "a", "b", "c", "d", "e">>

ShortId == <<"h", "o", "m", "e">>

DashedId == <<"B", "0", "1", "2", "-", "A", "B", "C", "D", "E">>

\* page sources: the pageId meta tag, the first data-asin attribute, the scripts
PageSources ==
    {[readable |-> r, meta |-> m, dataAsin |-> d, scripts |-> sc] :
        r \in BOOLEAN,
        m \in {NoElement, Element(NoElement), Element(Element(ValidAsin1)),
               Element(Element(ShortId))},
        d \in {NoElement, Element(<<>>), Element(ValidAsin2), Element(DashedId)},
        sc \in {<<>>, <<[form |-> "\"ASIN\":", value |-> ValidAsin1]>>,
                <<[form |-> "asin:", value |-> ValidAsin1]>>,
                <<[form |-> "\"ASIN\":", value |-> LowerAsin]>>}}

BlankSource == [readable |-> TRUE, meta |-> NoElement, dataAsin |-> NoElement, scripts |-> <<>>]

\* chains of n selectors: misses up to the k-th, which finds hit; later ones find after
ChainsOf(n, misses, hits, afters) ==
    {[i \in 1..n |-> IF i < k THEN m ELSE IF i = k THEN h ELSE a] :
        k \in 1..n, m \in misses, h \in hits, a \in afters}
    \cup {[i \in 1..n |-> m] : m \in misses}

PriceTexts ==
    {<<DollarSign, "1", "2", ".", "5">>, <<RupeeSign, "1", ",", "2", "9", "9">>,
     <<PoundSign, "7">>, <<"7", ".", "5", " ", EuroSign>>, <<"1", "2", "9", "9">>,
     <<RupeeSign, " ", "9", " ", DollarSign>>, <<"F", "r", "e", "e">>}

LongFeature == Rep("f", MinFeatureLen + 1)

FeatureTexts ==
    {LongFeature, <<"-", " ">> \o LongFeature, Rep("f", MinFeatureLen),
     MakeSure \o <<" ">> \o LongFeature, <<>>}

ImageSrcs == {Http \o <<":", "/", "i">>, <<"d", "a", "t", "a", ":">>, <<>>}

NameChains ==
    ChainsOf(3, {NoElement}, {Element(<<"T", "V">>), Element(<<>>)},
             {NoElement, Element(<<"X">>)})

PriceChains ==
    ChainsOf(5, {NoElement, Element(<<" ">>)}, {Element(t) : t \in PriceTexts},
             {NoElement, Element(<<DollarSign, "1">>)})

RatingChains ==
    ChainsOf(3, {NoElement, Element(<<"n", "e", "w">>)},
             {Element(<<"4", ".", "5", "0", " ", "o", "f", " ", "5">>), Element(<<"3">>)},
             {NoElement, Element(<<"1">>)})

CountChains ==
    ChainsOf(3, {NoElement, Element(<<",">>)},
             {Element(<<"1", ",", "2", "3", "4", " ", "r">>), Element(<<"(", "7", ")">>)},
             {NoElement, Element(<<"1">>)})

FeatureChains ==
    ChainsOf(3, {<<>>}, {<<a, b>> : a, b \in FeatureTexts} \cup {Rep(LongFeature, MaxFeatures + 1)},
             {<<>>, <<LongFeature>>})

SellerChains ==
    ChainsOf(3, {NoElement, Element(Visit \o <<" ", "S">>)},
             {Element(<<"A", "c", "m", "e">>), Element(BrandColon \o <<" ", "Z">>),
              Element(BrandColon)},
             {NoElement, Element(<<"Q">>)})

AvailabilityChains ==
    ChainsOf(3, {NoElement, Element(<<"$", "5">>)},
             {Element(<<"I", "n", " ", "S", "t", "o", "c", "k">>),
              Element(<<"U", "n">> \o Available)},
             {NoElement})

ImageChains ==
    ChainsOf(3, {<<>>}, {<<a, b>> : a, b \in ImageSrcs} \cup {Rep(Http, MaxImages + 1)},
             {<<>>})

\* a page on which no selector finds anything, and one with every field
EmptySnap ==
    [src |-> BlankSource, name |-> Rep(NoElement, 3), price |-> Rep(NoElement, 5),
     rating |-> Rep(NoElement, 3), review_count |-> Rep(NoElement, 3),
     features |-> Rep(<<>>, 3), seller |-> Rep(NoElement, 3),
     availability |-> Rep(NoElement, 3), images |-> Rep(<<>>, 3)]

FullSnap ==
    [src |-> [readable |-> TRUE, meta |-> Element(Element(ValidAsin1)),
              dataAsin |-> NoElement, scripts |-> <<>>],
     name |-> <<Element(<<"T", "V">>), NoElement, NoElement>>,
     price |-> <<Element(<<DollarSign, "1", "2", ".", "5">>), NoElement, NoElement,
                 NoElement, NoElement>>,
     rating |-> <<Element(<<"4", ".", "5">>), NoElement, NoElement>>,
     review_count |-> <<Element(<<"1", ",", "2", "3", "4">>), NoElement, NoElement>>,
     features |-> <<<<LongFeature>>, <<>>, <<>>>>,
     seller |-> <<Element(<<"A", "c", "m", "e">>), NoElement, NoElement>>,
     availability |-> <<Element(<<"I", "n", " ", "S", "t", "o", "c", "k">>), NoElement,
                        NoElement>>,
     images |-> <<<<Http \o <<":", "/", "i">>>>, <<>>, <<>>>>]

\* the two base pages with one field's chain varied
Snaps ==
    UNION {
        {[b EXCEPT !.src = c] : c \in PageSources}
        \cup {[b EXCEPT !.name = c] : c \in NameChains}
        \cup {[b EXCEPT !.price = c] : c \in PriceChains}
        \cup {[b EXCEPT !.rating = c] : c \in RatingChains}
        \cup {[b EXCEPT !.review_count = c] : c \in CountChains}
        \cup {[b EXCEPT !.features = c] : c \in FeatureChains}
        \cup {[b EXCEPT !.seller = c] : c \in SellerChains}
        \cup {[b EXCEPT !.availability = c] : c \in AvailabilityChains}
        \cup {[b EXCEPT !.images = c] : c \in ImageChains}
        : b \in {EmptySnap, FullSnap}}

Hosts == {"amazon.com", "amazon.in", "a.co"}

\* product urls: a full url with the ASIN in its path, and links without one
Urls ==
    {[host |-> h, dp |-> d, gp |-> NoElement, query |-> NoElement] :
        h \in Hosts, d \in {NoElement, Element(ValidAsin2 \o <<"/">>)}}

(***************************************************************************)
(* Single extraction calls: the arguments are drawn in the first state and *)
(* the call is applied once.                                               *)
(***************************************************************************)
NoUrl == [host |-> "", dp |-> NoElement, gp |-> NoElement, query |-> NoElement]

BlankBrowser == [kind |-> "blank", src |-> BlankSource, nodes |-> <<>>, next |-> "absent"]

\* no page transition has been made; base_url is the storefront prefix a listing
\* url was built with, "" for a transition to no such url; raised is the exception
\* that ended a click or the delay after it
NoTransition ==
    [via |-> "none", loaded |-> FALSE, settle |-> "skipped", antibot |-> "skipped",
     returned |-> "none", base_url |-> "", raised |-> "none"]

\* main() is not running: the scraper is used as a library
NoProcess == [pc |-> "none"]

\* no scrape_product run is in progress
RunIdle ==
    /\ site = "none"
    /\ pc = "idle"
    /\ url = NoUrl
    /\ maxPagesCfg = 0
    /\ browser = BlankBrowser
    /\ product = <<>>
    /\ asin = <<>>
    /\ attempt = 0
    /\ page = 0
    /\ reviews = <<>>
    /\ visited = <<>>
    /\ clicks = 0
    /\ result = <<>>
    /\ escaped = FALSE
    /\ nav = NoTransition

\* _extract_reviews_from_page on one listing page
PageInit ==
    /\ RunIdle
    /\ call \in {[op |-> "_extract_reviews_from_page", nodes |-> ns, fault |-> f] :
                    ns \in NodeSeqs \cup RatedNodeSeqs, f \in PageFaults}
    /\ ret = <<>>
    /\ proc = NoProcess

PageCall ==
    /\ call.op = "_extract_reviews_from_page"
    /\ ret = <<>>
    /\ ret' = <<[reviews |-> ExtractReviewsFromPage(call.nodes, call.fault),
                 perNode |-> [i \in DOMAIN call.nodes |->
                                 IF call.fault = "none"
                                 THEN ReviewOf(call.nodes[i], call.nodes)
                                 ELSE <<>>]]>>
    /\ UNCHANGED <<call, runVars, proc>>

PageNext == PageCall

PageSpec == PageInit /\ [][PageNext]_vars

\* extract_product_details on one product page
ProductInit ==
    /\ RunIdle
    /\ call \in {[op |-> "extract_product_details", resolved_url |-> u, snap |-> sn,
                  fault |-> f] : u \in Urls, sn \in Snaps, f \in ProductFaults}
    /\ ret = <<>>
    /\ proc = NoProcess

ProductCall ==
    /\ call.op = "extract_product_details"
    /\ ret = <<>>
    /\ ret' = <<extract_product_details(call.resolved_url, call.snap, call.fault)>>
    /\ UNCHANGED <<call, runVars, proc>>

ProductNext == ProductCall

ProductSpec == ProductInit /\ [][ProductNext]_vars

(***************************************************************************)
(* One scrape_product run                                                  *)
(***************************************************************************)
MAX_PAGES_TO_SCRAPE == 20

MAX_RETRIES == 3

\* max_pages of collect_customer_reviews when the caller passes none
DefaultMaxPages == 5

\* the small configured values of MAX_PAGES_TO_SCRAPE tried beside the default
MaxCfgPages == 1

CfgValues == 1..MaxCfgPages \cup {MAX_PAGES_TO_SCRAPE}

\* exceptions a driver call raises; all derive from Exception
DriverExceptions == {"TimeoutException", "WebDriverException"}

\* a handler that names TimeoutException alone
CatchesTimeoutOnly(e) == e = "TimeoutException"

\* "except Exception" handles e
ExceptExceptionCatches(e) == e \in DriverExceptions

ShortHosts == {"a.co"}

\* the product the short links lead to
CanonicalUrl ==
    [host |-> "amazon.in", dp |-> Element(ValidAsin1 \o <<"/">>), gp |-> NoElement,
     query |-> NoElement]

\* AmazonScraper.resolve_short_url: the final url of the redirects, or the url
\* itself when the request fails
ResolvedUrls(u) == {u} \cup (IF u.host \in ShortHosts THEN {CanonicalUrl} ELSE {})

\* product pages served in a run
RunSnaps ==
    {EmptySnap, FullSnap,
     [FullSnap EXCEPT !.src = [readable |-> TRUE, meta |-> Element(Element(ShortId)),
                               dataAsin |-> NoElement, scripts |-> <<>>]],
     [EmptySnap EXCEPT !.src = [readable |-> TRUE, meta |-> NoElement,
                                dataAsin |-> Element(<<>>), scripts |-> <<>>]]}

\* listing pages served in a run: the review nodes and the next-page control
RunNodeSeqs ==
    {<<>>,
     <<FullNode(Element(<<"A", "l">>), BodyText(MinContentLen, 0))>>,
     <<FullNode(Element(<<"B", "o">>), BodyText(MinContentLen, 0))>>}

NextControls == {"absent", "disabled", "enabled"}

ListingPages ==
    {[kind |-> "listing", src |-> BlankSource, nodes |-> ns, next |-> nx] :
        ns \in RunNodeSeqs, nx \in NextControls}

\* A run is made against one of two storefronts: "products" serves every
\* product page and url with every fault and listings of one review, "listings"
\* serves one product page and every listing page with every fault, "navigation"
\* serves one product page and one single-page listing, whose load may also time
\* out while settling or show an anti-bot challenge.
Sites == {"products", "listings", "navigation"}

FullUrl ==
    [host |-> "amazon.com", dp |-> Element(ValidAsin1 \o <<"/">>), gp |-> NoElement,
     query |-> NoElement]

SiteUrls(s) == IF s = "products" THEN Urls ELSE {FullUrl}

SiteSnaps(s) == IF s = "products" THEN RunSnaps ELSE {FullSnap}

SiteProductFaults(s) == IF s = "products" THEN ProductFaults ELSE {"none"}

SiteListings(s) ==
    IF s = "products"
    THEN {l \in ListingPages : Len(l.nodes) = 1 /\ l.nodes[1].name = Element(<<"A", "l">>)
                               /\ l.next # "absent"}
    ELSE IF s = "navigation"
    THEN {l \in ListingPages : Len(l.nodes) = 1 /\ l.nodes[1].name = Element(<<"A", "l">>)
                               /\ l.next = "absent"}
    ELSE ListingPages

SitePageFaults(s) == IF s = "listings" THEN PageFaults ELSE {"none"}

\* whether a load of the storefront can time out while it settles, and whether it
\* can show a CAPTCHA or a blocked page
SiteSettleTimeouts(s) == IF s = "navigation" THEN BOOLEAN ELSE {FALSE}

SiteChallenges(s) == IF s = "navigation" THEN BOOLEAN ELSE {FALSE}

\* the transition made by a bare driver.get(url) (extract_product_details line 128):
\* one load, followed by ethical_delay only
DirectGet(loaded) ==
    [via |-> "driver.get", loaded |-> loaded, settle |-> "skipped", antibot |-> "skipped",
     returned |-> "none", base_url |-> "", raised |-> "none"]

\* the transition made by next_button.click() (line 554), followed by
\* ethical_delay only
Click(loaded) ==
    [via |-> "click", loaded |-> loaded, settle |-> "skipped", antibot |-> "skipped",
     returned |-> "none", base_url |-> "", raised |-> "none"]

Init ==
    /\ site \in Sites
    /\ pc = "start"
    /\ url \in SiteUrls(site)
    /\ maxPagesCfg \in CfgValues
    /\ browser = BlankBrowser
    /\ product = <<>>
    /\ asin = <<>>
    /\ attempt = 0
    /\ page = 0
    /\ reviews = <<>>
    /\ visited = <<>>
    /\ clicks = 0
    /\ result = <<>>
    /\ escaped = FALSE
    /\ nav = NoTransition
    /\ call = [op |-> "scrape_product"]
    /\ ret = <<>>
    /\ proc = NoProcess

\* scrape_product line 684: extract_product_details(url), with the exception e that
\* the failing call raises
ExtractProductDetails ==
    /\ pc = "start"
    /\ \E resolved_url \in ResolvedUrls(url), sn \in SiteSnaps(site), readable \in BOOLEAN,
          fault \in SiteProductFaults(site), e \in DriverExceptions :
        LET snap == [sn EXCEPT !.src.readable = readable]
        IN  /\ fault \in {"none", "get"} \/ e # "TimeoutException"
            /\ IF fault = "none" \/ ExceptExceptionCatches(e)
               THEN /\ product' = <<extract_product_details(resolved_url, snap, fault)>>
                    /\ pc' = "collect"
                    /\ escaped' = FALSE
               ELSE /\ product' = product
                    /\ pc' = "escaped"
                    /\ escaped' = TRUE
            /\ browser' = IF fault = "get" THEN browser
                          ELSE [kind |-> "product", src |-> sn.src, nodes |-> <<>>,
                                next |-> "absent"]
            /\ nav' = DirectGet(fault # "get")
    /\ UNCHANGED <<site, url, maxPagesCfg, asin, attempt, page, reviews, visited, clicks,
                   result, call, ret, proc>>

\* collect_customer_reviews lines 523-536: the ASIN and the listing url
CollectStart ==
    /\ pc = "collect"
    /\ \E readable \in BOOLEAN :
        /\ asin' = extract_asin(url, [browser.src EXCEPT !.readable = readable])
        /\ pc' = IF asin' = NoElement \/ asin'[1] = <<>> THEN "collected" ELSE "navigate"
    /\ attempt' = 0
    /\ reviews' = <<>>
    /\ UNCHANGED <<site, url, maxPagesCfg, browser, product, page, visited, clicks, result,
                   escaped, call, ret, nav, proc>>

\* AmazonScraper.detect_amazon_domain: the storefront named in the url, the default
\* storefront when none is
detect_amazon_domain(u) ==
    CASE u.host = "amazon.com"   -> "https://www.amazon.com"
      [] u.host = "amazon.co.uk" -> "https://www.amazon.co.uk"
      [] u.host = "amazon.in"    -> "https://www.amazon.in"
      [] u.host = "amazon.de"    -> "https://www.amazon.de"
      [] OTHER                   -> "https://www.amazon.com"

\* a retry that does not count its attempts
SameAttempt(a) == a

\* the attempt index of the next iteration of navigate_with_retry
NextAttempt(a) == a + 1

\* navigate_with_retry: the last attempt has failed
RetriesExhausted(a) == ~(a < MAX_RETRIES - 1)

\* a settling step without a handler of its own
AbsorbsNothing(e) == FALSE

\* handle_dynamic_content_loading absorbs e: "except TimeoutException" (line 99)
SettleAbsorbs(e) == e = "TimeoutException"

\* the attempt raises e into the handler of navigate_with_retry (line 254)
AttemptFails(outcome, e) == outcome = "get" \/ (outcome = "settle" /\ ~SettleAbsorbs(e))

\* a caller that does not look at what navigate_with_retry returned
IgnoresNavigationResult(ok) == "on_page"

\* lines 538-540: "if not self.navigate_with_retry(reviews_url): return reviews"
AfterNavigation(ok) == IF ok THEN "on_page" ELSE "collected"

\* one attempt of navigate_with_retry(reviews_url): outcome "ok", "get" (driver.get
\* raises e) or "settle" (the page loads and the wait for the body in
\* handle_dynamic_content_loading raises e); challenge says that
\* handle_anti_bot_measures finds a CAPTCHA or a blocked page, which it logs and
\* waits out.  An exception that the handlers of navigate_with_retry and
\* collect_customer_reviews do not name leaves the run.
Navigate ==
    /\ pc = "navigate"
    /\ \E outcome \in {"ok", "get", "settle"}, listing \in SiteListings(site),
          e \in DriverExceptions, challenge \in SiteChallenges(site) :
        LET fails == AttemptFails(outcome, e)
            propagates == fails /\ ~ExceptExceptionCatches(e)
            exhausted == fails /\ ~propagates /\ RetriesExhausted(attempt)
        IN  /\ outcome = "ok" => e = "TimeoutException"
            /\ (outcome = "settle" /\ e = "TimeoutException")
                    => TRUE \in SiteSettleTimeouts(site)
            /\ fails => ~challenge
            /\ browser' = IF outcome = "get" THEN browser ELSE listing
            /\ nav' = [via      |-> "navigate_with_retry",
                       loaded   |-> outcome # "get",
                       settle   |-> IF outcome = "get" THEN "skipped"
                                    ELSE IF outcome = "ok" THEN "done" ELSE e,
                       antibot  |-> IF fails THEN "skipped"
                                    ELSE IF challenge THEN "challenge" ELSE "clear",
                       returned |-> IF ~fails THEN "true"
                                    ELSE IF exhausted THEN "false" ELSE "none",
                       base_url |-> detect_amazon_domain(url),
                       raised   |-> "none"]
            /\ IF ~fails
               THEN /\ pc' = AfterNavigation(TRUE)
                    /\ page' = 1
                    /\ attempt' = 0
                    /\ escaped' = escaped
               ELSE IF propagates
               THEN /\ pc' = "escaped"
                    /\ page' = page
                    /\ attempt' = 0
                    /\ escaped' = TRUE
               ELSE IF exhausted
               THEN /\ pc' = AfterNavigation(FALSE)
                    /\ page' = IF AfterNavigation(FALSE) = "on_page" THEN 1 ELSE page
                    /\ attempt' = 0
                    /\ escaped' = escaped
               ELSE /\ pc' = "navigate"
                    /\ page' = page
                    /\ attempt' = NextAttempt(attempt)
                    /\ escaped' = escaped
    /\ UNCHANGED <<site, url, maxPagesCfg, product, asin, reviews, visited, clicks, result,
                   call, ret, proc>>

\* what _extract_reviews_from_page() returns on each listing page served in a run
PageReviews ==
    [ns \in RunNodeSeqs |-> [f \in PageFaults |-> ExtractReviewsFromPage(ns, f)]]

\* a collector that keeps one copy of a review it has already collected
RECURSIVE ExtendUnseen(_, _)
ExtendUnseen(collected, page_reviews) ==
    IF page_reviews = <<>> THEN collected
    ELSE ExtendUnseen(IF \E i \in DOMAIN collected : collected[i] = Head(page_reviews)
                      THEN collected
                      ELSE Append(collected, Head(page_reviews)),
                      Tail(page_reviews))

\* line 546: reviews.extend(page_reviews)
Extend(collected, page_reviews) == collected \o page_reviews

\* lines 545-546: page_reviews = _extract_reviews_from_page(); reviews.extend
ExtractPage ==
    /\ pc = "on_page"
    /\ \E fault \in SitePageFaults(site) :
        LET page_reviews == PageReviews[browser.nodes][fault]
        IN  /\ reviews' = Extend(reviews, page_reviews)
            /\ visited' = Append(visited, page_reviews)
    /\ pc' = "advance"
    /\ UNCHANGED <<site, url, maxPagesCfg, browser, product, asin, attempt, page, clicks,
                   result, escaped, call, ret, nav, proc>>

\* the max_pages scrape_product runs collect_customer_reviews with (line 687)
MaxPagesArg == DefaultMaxPages

\* "for page in range(1, max_pages + 1)" has another iteration after this one
LoopContinues(p) == p < MaxPagesArg

\* a controller that clicks every control it finds
ClicksWhenPresent(next) == next # "absent"

\* line 553: next_button and "a-disabled" not in next_button.get_attribute("class")
ShouldClick(next) == next = "enabled"

\* what is raised while advancing: a driver exception, or Ctrl-C
AdvanceExceptions == DriverExceptions \cup {"KeyboardInterrupt"}

\* line 558, a bare "except:": it handles every exception, KeyboardInterrupt included
BareExceptCatches(e) == e \in AdvanceExceptions

\* lines 551-559: the next-page control; raises is the call that raises e, if any
\* ("find", "attr", "click", or "delay" for ethical_delay after the click); an
\* exception the handler catches ends the loop, another one leaves the run
Advance ==
    /\ pc = "advance"
    /\ \E raises \in {"none", "find", "attr", "click", "delay"},
          listing \in SiteListings(site), e \in AdvanceExceptions :
        LET after == IF BareExceptCatches(e) THEN "collected" ELSE "escaped"
        IN  /\ raises \in {"none", "find", "attr"} => e = "WebDriverException"
            /\ IF raises \in {"none", "click", "delay"} /\ ShouldClick(browser.next)
               THEN CASE raises = "none" ->
                            /\ clicks' = clicks + 1
                            /\ browser' = listing
                            /\ nav' = Click(TRUE)
                            /\ escaped' = escaped
                            /\ IF LoopContinues(page)
                               THEN pc' = "on_page" /\ page' = page + 1
                               ELSE pc' = "collected" /\ page' = page
                      [] raises = "delay" ->
                            /\ clicks' = clicks + 1
                            /\ browser' = listing
                            /\ nav' = [Click(TRUE) EXCEPT !.raised = e]
                            /\ pc' = after
                            /\ escaped' = (after = "escaped")
                            /\ page' = page
                      [] raises = "click" ->
                            /\ nav' = [Click(FALSE) EXCEPT !.raised = e]
                            /\ pc' = after
                            /\ escaped' = (after = "escaped")
                            /\ UNCHANGED <<clicks, browser, page>>
               ELSE /\ pc' = IF raises \in {"find", "attr"} THEN after ELSE "collected"
                    /\ escaped' = (pc' = "escaped")
                    /\ UNCHANGED <<clicks, browser, page, nav>>
    /\ UNCHANGED <<site, url, maxPagesCfg, product, asin, attempt, reviews, visited, result,
                   call, ret, proc>>

\* scrape_product lines 689-694
Assemble ==
    /\ pc = "collected"
    /\ result' = <<[product_details       |-> product[1],
                    reviews               |-> reviews,
                    total_reviews_scraped |-> Len(reviews),
                    scraping_timestamp    |-> "time.time()"]>>
    /\ pc' = "done"
    /\ UNCHANGED <<site, url, maxPagesCfg, browser, product, asin, attempt, page, reviews,
                   visited, clicks, escaped, call, ret, nav, proc>>

Next ==
    \/ ExtractProductDetails
    \/ CollectStart
    \/ Navigate
    \/ ExtractPage
    \/ Advance
    \/ Assemble

Spec == Init /\ [][Next]_vars

(***************************************************************************)
(* One collect_customer_reviews call                                       *)
(***************************************************************************)
\* a link that carries no ASIN, so that the ASIN is read from the loaded page
BareUrl == [host |-> "amazon.in", dp |-> NoElement, gp |-> NoElement, query |-> NoElement]

\* the state in which scrape_product calls collect_customer_reviews (line 687):
\* extract_product_details has returned, with the product page loaded or not
CollectInit ==
    /\ site = "listings"
    /\ pc = "collect"
    /\ url \in {FullUrl, BareUrl}
    /\ maxPagesCfg \in CfgValues
    /\ \E loaded \in BOOLEAN :
        /\ browser = IF loaded
                     THEN [kind |-> "product", src |-> FullSnap.src, nodes |-> <<>>,
                           next |-> "absent"]
                     ELSE BlankBrowser
        /\ product = <<extract_product_details(url, FullSnap,
                                               IF loaded THEN "none" ELSE "get")>>
        /\ nav = DirectGet(loaded)
    /\ asin = <<>>
    /\ attempt = 0
    /\ page = 0
    /\ reviews = <<>>
    /\ visited = <<>>
    /\ clicks = 0
    /\ result = <<>>
    /\ escaped = FALSE
    /\ call = [op |-> "collect_customer_reviews"]
    /\ ret = <<>>
    /\ proc = NoProcess

CollectNext ==
    \/ CollectStart
    \/ Navigate
    \/ ExtractPage
    \/ Advance

\* every driver call returns or raises: the call keeps taking steps while one is
\* possible
FairSpec == CollectInit /\ [][CollectNext]_vars /\ WF_vars(CollectNext)

(***************************************************************************)
(* The command line: main() and scrape_amazon_product() of main.py around  *)
(* one scraper session.  proc = [pc, url, save_files, driver, navigated,   *)
(* raised, result, exit_code]; driver is "none", "running" or "quit".      *)
(***************************************************************************)
\* amazon_domains of is_amazon_url
AmazonDomains ==
    {<<"a", "m", "a", "z", "o", "n", ".", "c", "o", "m">>,
     <<"a", "m", "a", "z", "o", "n", ".", "i", "n">>,
     <<"a", "m", "a", "z", "o", "n", ".", "c", "o", ".", "u", "k">>,
     <<"a", "m", "a", "z", "o", "n", ".", "d", "e">>,
     <<"a", "m", "z", "n", ".", "i", "n">>,
     <<"a", "m", "z", "n", ".", "t", "o">>,
     <<"a", ".", "c", "o">>}

\* is_amazon_url: any(domain in url.lower() for domain in amazon_domains)
is_amazon_url(text) == \E domain \in AmazonDomains : HasSub(Lower(text), domain)

\* the url arguments tried on the command line
MainUrls ==
    {<<"h", "t", "t", "p", "s", ":", "/", "/", "a", "m", "a", "z", "o", "n", ".", "c", "o", "m", "/", "d", "p", "/", "B", "1">>,
     <<"h", "t", "t", "p", "s", ":", "/", "/", "w", "w", "w", ".", "a", "m", "a", "z", "o", "n", ".", "i", "n", "/", "d", "p", "/", "B", "1">>,
     <<"h", "t", "t", "p", "s", ":", "/", "/", "a", ".", "c", "o", "/", "d", "/", "x">>,
     <<"h", "t", "t", "p", "s", ":", "/", "/", "A", "M", "A", "Z", "O", "N", ".", "D", "E", "/", "d", "p", "/", "B", "1">>,
     <<"a", "m", "z", "n", ".", "t", "o", "/", "3", "x">>,
     <<"h", "t", "t", "p", "s", ":", "/", "/", "e", "b", "a", "y", ".", "c", "o", "m", "/", "i", "t", "m", "/", "1">>,
     <<"h", "t", "t", "p", "s", ":", "/", "/", "e", "b", "a", "y", ".", "c", "o", "m", "/", "?", "q", "=", "a", "m", "a", "z", "o", "n", ".", "c", "o", "m">>,
     <<"h", "t", "t", "p", "s", ":", "/", "/", "d", "a", "t", "a", ".", "c", "o", "m", "/", "x">>,
     <<"h", "t", "t", "p", "s", ":", "/", "/", "a", "m", "a", "z", "o", "n", ".", "c", "o", "m", ".", "e", "v", "i", "l", ".", "o", "r", "g", "/">>,
     <<>>}

\* exceptions raised inside scrape_amazon_product
MainExceptions == {"Exception", "KeyboardInterrupt"}

MainInit ==
    /\ RunIdle
    /\ call = [op |-> "main"]
    /\ ret = <<>>
    /\ proc \in {[pc |-> "validate", url |-> u, save_files |-> sf, driver |-> "none",
                  navigated |-> FALSE, raised |-> "none", result |-> "none",
                  exit_code |-> -1] :
                    u \in MainUrls, sf \in BOOLEAN}

\* main lines 99-105: the url test; sys.exit(1) when it fails
MainValidate ==
    /\ proc.pc = "validate"
    /\ proc' = IF is_amazon_url(proc.url)
               THEN [proc EXCEPT !.pc = "setup"]
               ELSE [proc EXCEPT !.pc = "exited", !.exit_code = 1]
    /\ UNCHANGED <<call, ret, runVars>>

\* an exception leaves the with block: __exit__ calls close(), which calls
\* driver.quit(); both except clauses of scrape_amazon_product return {}
LeaveWith(p, e) ==
    [p EXCEPT !.pc = "returned", !.driver = "quit", !.raised = e, !.result = "empty"]

\* line 43, "with AmazonScraper() as scraper": __init__ runs setup_driver, which
\* raises before the driver is created ("options"), after it ("timeouts": lines
\* 76-80) or not at all; it logs and re-raises (line 86), so __enter__ and
\* __exit__ are not reached
MainSetupDriver ==
    /\ proc.pc = "setup"
    /\ \E fault \in {"none", "options", "timeouts"}, e \in MainExceptions :
        /\ fault = "none" => e = "Exception"
        /\ proc' = CASE fault = "none" ->
                            [proc EXCEPT !.pc = "scrape", !.driver = "running"]
                     [] fault = "options" ->
                            [proc EXCEPT !.pc = "returned", !.raised = e,
                                         !.result = "empty"]
                     [] fault = "timeouts" ->
                            [proc EXCEPT !.pc = "returned", !.driver = "running",
                                         !.raised = e, !.result = "empty"]
    /\ UNCHANGED <<call, ret, runVars>>

\* line 45: scraper.scrape_product(url), which loads the product page; it returns
\* a record with or without reviews, or an exception leaves it
MainScrapeProduct ==
    /\ proc.pc = "scrape"
    /\ \E outcome \in {"with_reviews", "no_reviews", "raise"}, e \in MainExceptions :
        /\ outcome # "raise" => e = "Exception"
        /\ proc' = IF outcome = "raise"
                   THEN LeaveWith([proc EXCEPT !.navigated = TRUE], e)
                   ELSE [proc EXCEPT !.navigated = TRUE, !.result = outcome,
                                     !.pc = IF proc.save_files THEN "save" ELSE "summary"]
    /\ UNCHANGED <<call, ret, runVars>>

\* lines 47-59: save_to_json and save_reviews_to_csv
MainSaveFiles ==
    /\ proc.pc = "save"
    /\ \E raises \in BOOLEAN, e \in MainExceptions :
        /\ ~raises => e = "Exception"
        /\ proc' = IF raises THEN LeaveWith(proc, e) ELSE [proc EXCEPT !.pc = "summary"]
    /\ UNCHANGED <<call, ret, runVars>>

\* lines 62-64: print_scraping_summary(result); return result, through __exit__
MainSummary ==
    /\ proc.pc = "summary"
    /\ \E raises \in BOOLEAN, e \in MainExceptions :
        /\ ~raises => e = "Exception"
        /\ proc' = IF raises THEN LeaveWith(proc, e)
                   ELSE [proc EXCEPT !.pc = "returned", !.driver = "quit"]
    /\ UNCHANGED <<call, ret, runVars>>

\* lines 107-116: success when the result holds reviews; sys.exit(0 if success else 1)
MainExit ==
    /\ proc.pc = "returned"
    /\ proc' = [proc EXCEPT !.pc = "exited",
                            !.exit_code = IF proc.result = "with_reviews" THEN 0 ELSE 1]
    /\ UNCHANGED <<call, ret, runVars>>

MainNext ==
    \/ MainValidate
    \/ MainSetupDriver
    \/ MainScrapeProduct
    \/ MainSaveFiles
    \/ MainSummary
    \/ MainExit

MainSpec == MainInit /\ [][MainNext]_vars

(***************************************************************************)
(* Properties                                                              *)
(***************************************************************************)

\* C1: one scrape_product run extracts reviews from at most MAX_PAGES_TO_SCRAPE
\* listing pages, whatever value is configured (values below 5 included).
C1_PagesWithinConfiguredBound == Len(visited) <= maxPagesCfg

\* C2: collect_customer_reviews always terminates: once entered it eventually
\* returns, also when the next-page control is enabled on every page and when
\* every navigation attempt fails.
C2_CollectTerminates == (pc = "collect") ~> (pc = "collected")

\* the loop ran to its bound: every page had an enabled control, which was clicked
C2_Witness ==
    /\ pc = "collected"
    /\ Len(visited) = DefaultMaxPages
    /\ clicks = DefaultMaxPages

ResultKeys == {"product_details", "reviews", "total_reviews_scraped", "scraping_timestamp"}

\* C3: whatever driver calls fail, no exception leaves scrape_product, and the
\* record it returns holds product_details, reviews, total_reviews_scraped and
\* scraping_timestamp, with total_reviews_scraped the length of reviews.
C3_NeverPropagates ==
    /\ ~escaped
    /\ pc # "escaped"
    /\ pc = "done" =>
        /\ result # <<>>
        /\ DOMAIN result[1] = ResultKeys
        /\ result[1].total_reviews_scraped = Len(result[1].reviews)
        /\ result[1].product_details = product[1]

\* a run that returned after a lookup failed during field extraction (no seller
\* step was reached) and every attempt to load the listing failed
C3_Witness ==
    /\ pc = "done"
    /\ "seller_info" \notin DOMAIN result[1].product_details
    /\ result[1].product_details.name # <<>>
    /\ asin # NoElement
    /\ visited = <<>>
    /\ result[1].total_reviews_scraped = 0

\* the node lacks exactly one of the rating, title and date elements
LacksOneSubfield(node) ==
    /\ ~node.raises
    /\ node.body # NoElement
    /\ Cardinality({f \in {"rating", "title", "date"} : node[f] = NoElement}) = 1

HasLongBody(node) ==
    node.body # NoElement /\ Len(Strip(node.body[1])) >= MinContentLen

\* C4: a review node that lacks one sub-field element (rating, title or date) and
\* has a body of trimmed length >= 10 yields a retained record with the sentinel
\* in the missing sub-field (date "", title "", rating 0) and the other
\* sub-fields extracted.
C4_MissingSubfieldKeepsReview ==
    (ret # <<>> /\ call.op = "_extract_reviews_from_page" /\ call.fault = "none") =>
        \A i \in DOMAIN call.nodes :
            LET node == call.nodes[i]
            IN  (LacksOneSubfield(node) /\ HasLongBody(node)) =>
                    /\ ret[1].perNode[i] # <<>>
                    /\ ret[1].perNode[i][1].date = safe_get_text(node.date)
                    /\ ret[1].perNode[i][1].title = safe_get_text(node.title)
                    /\ ret[1].perNode[i][1].rating = FirstIntOrZero(safe_get_text(node.rating))
                    /\ ret[1].perNode[i][1].review_text = safe_get_text(node.body)

\* C5: a review candidate is returned for a page iff its body has trimmed length
\* >= 10: the number of records returned equals the number of review nodes with
\* such a body, and no record with a shorter body is returned.
C5_RetainedIffLongBody ==
    (/\ ret # <<>>
     /\ call.op = "_extract_reviews_from_page"
     /\ call.fault = "none"
     /\ \A i \in DOMAIN call.nodes : ~call.nodes[i].raises) =>
        /\ Len(ret[1].reviews) =
              Cardinality({i \in DOMAIN call.nodes : HasLongBody(call.nodes[i])})
        /\ \A k \in DOMAIN ret[1].reviews :
              Len(Strip(ret[1].reviews[k].review_text)) >= MinContentLen

\* seq without its i-th element
RemoveAt(seq, i) == SubSeq(seq, 1, i - 1) \o SubSeq(seq, i + 1, Len(seq))

\* C6: a review node whose processing raises contributes no record, and the page
\* result equals the result for the same page with that node removed.
C6_FailingNodeSkippedOnly ==
    (ret # <<>> /\ call.op = "_extract_reviews_from_page" /\ call.fault = "none") =>
        \A i \in DOMAIN call.nodes :
            ReviewRaises(call.nodes[i]) =>
                /\ ret[1].perNode[i] = <<>>
                /\ ret[1].reviews = ExtractReviewsFromPage(RemoveAt(call.nodes, i), "none")

ProductKeys ==
    {"url", "asin", "name", "price", "currency", "rating", "review_count", "features",
     "seller_name", "images"}

FieldIndex(field) == CHOOSE i \in DOMAIN FieldOrder : FieldOrder[i] = field

\* the field's extraction ran to its end under the fault
FieldExtracted(field, fault) ==
    \/ fault = "none"
    \/ fault \notin {"none", "get"} /\ FieldIndex(field) < FieldIndex(fault)

\* C7: the product record always holds every ProductRecord field, each with an
\* extracted value or its sentinel, also when the navigation fails; the
\* seller-name field holds the platform default when no seller was resolved.
C7_EveryFieldPresentOrSentinel ==
    (ret # <<>> /\ call.op = "extract_product_details") =>
        /\ ProductKeys \subseteq DOMAIN ret[1]
        /\ LET seller == IF FieldExtracted("seller", call.fault)
                         THEN SellerName(call.snap.seller)
                         ELSE NoElement
           IN  ret[1].seller_name =
                  IF seller = NoElement \/ seller[1] = <<>> THEN AmazonSeller ELSE seller[1]

\* C8: a failure while extracting one field (any exception of a driver lookup)
\* leaves that field at its sentinel and every later field is still extracted
\* from the page.
C8_LaterFieldsStillExtracted ==
    (ret # <<>> /\ call.op = "extract_product_details"
               /\ call.fault \notin {"none", "get"}) =>
        \A i \in DOMAIN FieldOrder :
            FieldIndex(call.fault) < i =>
                LET alone == FieldStep(FieldOrder[i], call.snap,
                                       InitialProductData(call.resolved_url))
                    initial == InitialProductData(call.resolved_url)
                IN  \A k \in DOMAIN alone :
                        (k \notin DOMAIN initial \/ alone[k] # initial[k])
                            => (k \in DOMAIN ret[1] /\ ret[1][k] = alone[k])

CurrencyCodes == {"USD", "INR", "GBP", "EUR", "UNKNOWN"}

\* the text the price extraction works on: that of the first price element with text
RECURSIVE PriceTextUsed(_)
PriceTextUsed(chain) ==
    IF chain = <<>> THEN <<>>
    ELSE IF Head(chain) # NoElement /\ safe_get_text(Head(chain)) # <<>>
         THEN safe_get_text(Head(chain))
         ELSE PriceTextUsed(Tail(chain))

SignsIn(text) == {c \in {DollarSign, RupeeSign, PoundSign, EuroSign} : Contains(text, c)}

\* C9: for a non-empty price text the currency is USD, INR, GBP or EUR when the text
\* contains $, the rupee, pound or euro sign, UNKNOWN when it contains none, the
\* price is the text without the characters other than digits and '.', and the
\* currency of a returned product record is one of USD, INR, GBP, EUR, UNKNOWN.
C9_CurrencyClosedSet ==
    (ret # <<>> /\ call.op = "extract_product_details") =>
        /\ ret[1].currency \in CurrencyCodes
        /\ LET text == PriceTextUsed(call.snap.price)
           IN  (FieldExtracted("price", call.fault) /\ text # <<>>) =>
                /\ SignsIn(text) = {DollarSign} => ret[1].currency = "USD"
                /\ SignsIn(text) = {RupeeSign} => ret[1].currency = "INR"
                /\ SignsIn(text) = {PoundSign} => ret[1].currency = "GBP"
                /\ SignsIn(text) = {EuroSign} => ret[1].currency = "EUR"
                /\ SignsIn(text) = {} => ret[1].currency = "UNKNOWN"
                /\ ret[1].price = SelectSeq(text, LAMBDA c : c \in Digits \cup {"."})

\* exactly 10 alphanumeric characters
IsValidAsin(text) == Len(text) = AsinLen /\ \A i \in DOMAIN text : IsAlnumChar(text[i])

\* C10: the identifier stored in the product record and the identifier the
\* review-listing url is built from are each empty/unresolved or exactly 10
\* alphanumeric characters.
C10_IdentifierValidOrEmpty ==
    /\ product # <<>> => (product[1].asin = <<>> \/ IsValidAsin(product[1].asin))
    /\ asin # NoElement => (asin[1] = <<>> \/ IsValidAsin(asin[1]))

\* the script declares a valid identifier, in whichever of the pattern forms
HasScriptAsin(script) ==
    Len(script.value) = AsinLen /\ \A i \in 1..AsinLen : script.value[i] \in UpperAlnum

\* C11: when the url path, the pageId meta tag and the data-asin attribute yield no
\* valid identifier and a script variable (in any of the pattern forms) holds a
\* valid one, the identifier extracted for the product record is that one.
C11_ScriptIdentifierReturned ==
    (ret # <<>> /\ call.op = "extract_product_details" /\ call.fault # "get") =>
        LET src == call.snap.src
            metaValid == /\ src.meta # NoElement
                         /\ src.meta[1] # NoElement
                         /\ IsValidAsin(src.meta[1][1])
            dataValid == src.dataAsin # NoElement /\ IsValidAsin(src.dataAsin[1])
        IN  (/\ src.readable
             /\ call.resolved_url.dp = NoElement
             /\ ~metaValid
             /\ ~dataValid
             /\ src.scripts # <<>>
             /\ HasScriptAsin(src.scripts[1])) =>
                ret[1].asin = src.scripts[1].value

\* the attempt recorded in n raised into the handler of navigate_with_retry
AttemptFailed(n) == ~n.loaded \/ n.settle \notin {"done", "TimeoutException"}

C13_AllTransitionsViaNavigator ==
    /\ nav.via \in {"none", "navigate_with_retry"}
    /\ pc = "on_page" => (nav.settle # "skipped" /\ nav.antibot # "skipped")


\* C16: when the next-page control of the current listing page is absent, or
\* present with the disabled marker class, pagination ends after that page: the
\* control is not clicked, no further page is loaded or extracted, and the
\* reviews collected so far are what collect_customer_reviews returns.
C16_NoNextEndsPagination ==
    [][(pc = "advance" /\ browser.next \in {"absent", "disabled"}) =>
        /\ pc' = "collected"
        /\ clicks' = clicks
        /\ browser' = browser
        /\ nav' = nav
        /\ visited' = visited
        /\ reviews' = reviews]_vars

\* the second page shows a disabled control: pagination has ended there, after the
\* one click that led to it
C16_Witness ==
    /\ pc = "collected"
    /\ browser.kind = "listing"
    /\ browser.next = "disabled"
    /\ Len(visited) = 2
    /\ clicks = 1
    /\ reviews # <<>>

\* C17: when navigation to the review listing fails on all MAX_RETRIES attempts,
\* collect_customer_reviews returns an empty sequence without extracting any
\* page, the result has total_reviews_scraped = 0, and the product record
\* extracted earlier in the run is returned in it as it was.
C17_FailedNavigationYieldsEmpty ==
    nav.returned = "false" =>
        /\ pc \in {"collected", "done"}
        /\ reviews = <<>>
        /\ visited = <<>>
        /\ clicks = 0
        /\ pc = "done" =>
            /\ result[1].reviews = <<>>
            /\ result[1].total_reviews_scraped = 0
            /\ result[1].product_details = product[1]

\* a run whose product page was read and whose listing never loaded
C17_Witness ==
    /\ pc = "done"
    /\ nav.returned = "false"
    /\ result[1].total_reviews_scraped = 0
    /\ result[1].product_details.name # <<>>
    /\ result[1].product_details.asin # <<>>

\* C18: after reviews have been extracted from the last page the bound allows, the
\* controller stops without locating or clicking the next-page control: the number
\* of clicks is at most the number of pages extracted minus one.
C18_NoClickAtPageBound ==
    (pc \in {"collected", "done"} /\ nav.raised = "none") =>
        clicks <= IF visited = <<>> THEN 0 ELSE Len(visited) - 1

\* the review sequences of the visited pages, joined in the order of the visits
RECURSIVE Flatten(_)
Flatten(pages) == IF pages = <<>> THEN <<>> ELSE Head(pages) \o Flatten(Tail(pages))

\* C19: in every outcome of pagination (control absent or disabled, page bound
\* reached, exception while advancing) collect_customer_reviews returns exactly the
\* concatenation, in page order, of the review sequences extracted from the visited
\* pages: nothing is lost, reordered or de-duplicated.
C19_ReviewsAreConcatenation ==
    /\ reviews = Flatten(visited)
    /\ pc = "done" =>
        /\ result[1].reviews = Flatten(visited)
        /\ result[1].total_reviews_scraped = Len(Flatten(visited))

\* the same review was extracted from two pages and is returned twice
C19_Witness ==
    /\ pc = "done"
    /\ Len(visited) >= 2
    /\ visited[1] # <<>>
    /\ visited[2] = visited[1]
    /\ Len(result[1].reviews) >= 2
    /\ result[1].reviews[1] = result[1].reviews[2]


\* what a strategy yields is usable for its field: the text is not empty (title,
\* price), holds a number (rating, review count), is not a "Visit ..." link
\* (seller), or at least one bullet is kept (features)
NameYields(element) == element # NoElement /\ safe_get_text(element) # <<>>

PriceYields(element) == element # NoElement /\ safe_get_text(element) # <<>>

RatingYields(element) ==
    /\ element # NoElement
    /\ FirstFloat(IF element[1] # <<>> THEN element[1] ELSE safe_get_text(element)) # NoElement

CountYields(element) ==
    /\ element # NoElement
    /\ \E i \in DOMAIN safe_get_text(element) : safe_get_text(element)[i] \in Digits

FeaturesYield(elements) == FeaturesOf(FirstN(elements, MaxFeatures)) # <<>>

SellerYields(element) ==
    /\ element # NoElement
    /\ safe_get_text(element) # <<>>
    /\ ~StartsWith(safe_get_text(element), Visit)

\* the chain cut down to its first strategy that yields, <<>> when none does
FirstYielding(chain, Yields(_)) ==
    IF \E i \in DOMAIN chain : Yields(chain[i])
    THEN <<chain[CHOOSE i \in DOMAIN chain :
                    Yields(chain[i]) /\ \A j \in 1..(i - 1) : ~Yields(chain[j])]>>
    ELSE <<>>

\* C20: for every product field with an ordered locator chain (title, price,
\* rating, review count, features, seller) the stored value is the result of the
\* first strategy in order that yields a non-empty, validated result: a strategy
\* whose element exists with empty or rejected content does not end the chain,
\* and no later strategy is consulted.
C20_FirstYieldingStrategyWins ==
    (ret # <<>> /\ call.op = "extract_product_details" /\ call.fault = "none") =>
        LET pd == InitialProductData(call.resolved_url)
            snap == call.snap
        IN  /\ ret[1].name = ExtractName(FirstYielding(snap.name, NameYields), pd).name
            /\ ret[1].price
                = _extract_price_info(FirstYielding(snap.price, PriceYields), pd).price
            /\ ret[1].rating
                = ExtractRating(FirstYielding(snap.rating, RatingYields), pd).rating
            /\ ret[1].review_count
                = ExtractReviewCount(FirstYielding(snap.review_count, CountYields),
                                     pd).review_count
            /\ ret[1].features
                = _extract_features(FirstYielding(snap.features, FeaturesYield),
                                    pd).features
            /\ ret[1].seller_info
                = _extract_seller_info(FirstYielding(snap.seller, SellerYields),
                                       pd).seller_info


\* C14: on every exit path of a run in which a browser session was started (normal
\* return, an exception in scraping or saving, a user interrupt, a failure inside
\* driver setup after the browser was created) driver.quit is called before the
\* run ends.
C14_SessionAlwaysTerminated ==
    (proc.pc = "exited" /\ proc.driver # "none") => proc.driver = "quit"

SchemeSep == <<":", "/", "/">>

\* the part of a url after "scheme://"
RECURSIVE AfterScheme(_, _)
AfterScheme(text, rest) ==
    IF rest = <<>> THEN text
    ELSE IF StartsWith(rest, SchemeSep) THEN SubSeq(rest, Len(SchemeSep) + 1, Len(rest))
    ELSE AfterScheme(text, Tail(rest))

\* the characters up to the first path, query, fragment or port delimiter
RECURSIVE UpToDelimiter(_)
UpToDelimiter(text) ==
    IF text = <<>> \/ Head(text) \in {"/", "?", "#", ":"} THEN <<>>
    ELSE <<Head(text)>> \o UpToDelimiter(Tail(text))

\* the host of a url, in lower case
HostOf(text) == Lower(UpToDelimiter(AfterScheme(text, text)))

EndsWith(text, suffix) ==
    Len(text) >= Len(suffix)
    /\ SubSeq(text, Len(text) - Len(suffix) + 1, Len(text)) = suffix

\* the host is an allow-listed domain or a subdomain of one
HostAllowed(host) ==
    \E domain \in AmazonDomains : host = domain \/ EndsWith(host, <<".">> \o domain)

\* C15: for a url whose host is not an allow-listed storefront or short-link
\* domain, whatever else the url text contains, the run fails at once with the
\* failure exit code: no browser session is created and no navigation is issued.
C15_ForeignHostRejected ==
    (proc.pc \notin {"none", "validate"} /\ ~HostAllowed(HostOf(proc.url))) =>
        /\ proc.pc = "exited"
        /\ proc.exit_code = 1
        /\ proc.driver = "none"
        /\ ~proc.navigated


\* C21: every review record returned for a page has a rating that is an integer
\* in 0..5 (0 meaning not found) and a helpful-vote count that is not negative,
\* whatever digits appear in the rendered rating and vote texts.
C21_RatingAndVotesInRange ==
    (ret # <<>> /\ call.op = "_extract_reviews_from_page") =>
        \A k \in DOMAIN ret[1].reviews :
            /\ ret[1].reviews[k].rating \in 0..5
            /\ ret[1].reviews[k].helpful_votes \in Nat


\* C24: every sub-field of a returned review record is read from the record's own
\* review node: two nodes of one page with different reviewer names yield records
\* with their respective names, and a node without a reviewer-name element
\* yields "Anonymous".
C24_ReviewerNameFromOwnNode ==
    (ret # <<>> /\ call.op = "_extract_reviews_from_page" /\ call.fault = "none") =>
        \A i \in DOMAIN call.nodes :
            LET node == call.nodes[i]
            IN  ret[1].perNode[i] # <<>> =>
                    LET record == ret[1].perNode[i][1]
                    IN  /\ record.reviewer_name = IF node.name = NoElement THEN Anonymous
                                                  ELSE safe_get_text(node.name)
                        /\ record.review_id = OrEmpty(node.id)
                        /\ record.title = safe_get_text(node.title)
                        /\ record.review_text = safe_get_text(node.body)
                        /\ record.date = safe_get_text(node.date)
                        /\ record.verified_purchase = node.verified
                        /\ record.vine_customer = node.vine


\* C22: in one scrape_product run the identifier the review-listing url is built
\* with equals the identifier stored in the product record whenever both were
\* resolved: reviews are never collected for another identifier than the one
\* reported for the product.
C22_ListingIdentifierIsProductIdentifier ==
    (/\ pc \in {"navigate", "on_page", "advance", "collected", "done"}
     /\ asin # NoElement
     /\ asin[1] # <<>>
     /\ product # <<>>
     /\ product[1].asin # <<>>) =>
        /\ asin[1] = product[1].asin
        /\ pc = "done" => result[1].product_details.asin = asin[1]


\* C23: the review-listing url is built on the storefront of the resolved product
\* url: for a short link that resolves to a storefront other than the default one
\* (amazon.in, amazon.co.uk) the listing url uses that storefront's domain, not
\* amazon.com.
C23_ListingOnResolvedStorefront ==
    (nav.via = "navigate_with_retry" /\ product # <<>>) =>
        nav.base_url = detect_amazon_domain(product[1].url)


\* C25: a user interrupt raised during pagination (while the next-page control is
\* clicked or during the delay after the click) leaves scrape_product: the run
\* ends as interrupted, and never goes on to assemble a result as if the listing
\* had ended.
C25_InterruptLeavesRun ==
    nav.raised = "KeyboardInterrupt" =>
        /\ pc = "escaped"
        /\ escaped
        /\ result = <<>>

=============================================================================
